---- MODULE Spec2Model ----
(***************************************************************************)
(* A model of AutocontourKnee (src/AutocontourKnee.py): the periosteal     *)
(* mask pipeline get_periosteal_mask and its helpers, over a small voxel   *)
(* grid.  The SimpleITK primitives the class calls are modelled by what    *)
(* they compute with the arguments the class passes (and the defaults of   *)
(* the arguments it leaves out).                                           *)
(*                                                                         *)
(* An image is a function from Voxels to integers.  A voxel is its raster  *)
(* index x + DimX*(y + DimY*z), the order in which SimpleITK scans.        *)
(***************************************************************************)
EXTENDS Integers, FiniteSets, Sequences, TLC

\* ---------------------------------------------------------------- the grid
\* Extent of the grid along x; the extents along y and z are those of Dims.
DimX == 2

Dims == <<DimX, 2, 2>>

NVox == Dims[1] * Dims[2] * Dims[3]

Voxels == 0 .. (NVox - 1)

\* Coordinate of voxel v along axis a (1 = x, 2 = y, 3 = z).
Coord(v, a) ==
    IF a = 1 THEN v % Dims[1]
    ELSE IF a = 2 THEN (v \div Dims[1]) % Dims[2]
    ELSE v \div (Dims[1] * Dims[2])

VoxelAt(x, y, z) == x + Dims[1] * (y + Dims[2] * z)

InGrid(x, y, z) ==
    /\ x >= 0 /\ x < Dims[1]
    /\ y >= 0 /\ y < Dims[2]
    /\ z >= 0 /\ z < Dims[3]

Clamp(c, a) == IF c < 0 THEN 0 ELSE IF c >= Dims[a] THEN Dims[a] - 1 ELSE c

\* Squared Euclidean distance between two voxels.
Dist2(u, v) ==
    LET dx == Coord(u, 1) - Coord(v, 1)
        dy == Coord(u, 2) - Coord(v, 2)
        dz == Coord(u, 3) - Coord(v, 3)
    IN dx * dx + dy * dy + dz * dz

\* The foreground voxel set of a mask whose foreground label is fg.
Fg(m, fg) == {v \in Voxels : m[v] = fg}

Card(S) == Cardinality(S)

Min(S) == CHOOSE v \in S : \A u \in S : v <= u

\* The foreground labels, the threshold bands <<lower, upper>> (one of them
\* empty, lower > upper), the radii and the intensities the model draws from.
InValues == {1, 127}

Bands == {<<-1, 3>>, <<1, 3>>, <<1, 0>>}

Radii == {1, 2}

\* <<peri_s1_radius, peri_s2_radius, peri_s3_radius, peri_s4_open_radius,
\* peri_s4_close_radius>>: all small, all covering the grid, and the defaults'
\* proportions (the first dilation and the last closing the widest).
RadiusProfiles == {<<1, 1, 1, 1, 1>>, <<2, 1, 1, 1, 2>>, <<2, 2, 2, 2, 2>>}

Intensities == {-2, 2}

\* The most voxels of a volume that differ from its background intensity.
MaxOdd == 2

\* An image as a value: TLC keeps a function expression unevaluated until it
\* is compared, and every filter below hands on an evaluated image.
Image(f) == CHOOSE g \in {f} : g # <<>>

\* The image whose voxel v holds F(img, v), and G(a, b, v) for two images.
PerVoxel(img, F(_, _)) ==
    CHOOSE g \in {[v \in Voxels |-> F(i, v)] : i \in {img}} : g # <<>>

PerVoxel2(a, b, G(_, _, _)) ==
    CHOOSE g \in {[v \in Voxels |-> G(i[1], i[2], v)] : i \in {<<a, b>>}} :
        g # <<>>

\* --------------------------------------------- voxel-wise image arithmetic
\* img == c and img != c of SimpleITK: an 8-bit image of 1 (true) and 0.
Equal(img, c) == PerVoxel(img, LAMBDA i, v : IF i[v] = c THEN 1 ELSE 0)

NotEqual(img, c) == PerVoxel(img, LAMBDA i, v : IF i[v] # c THEN 1 ELSE 0)

\* a != b of two images.
NotEqualImages(a, b) ==
    PerVoxel2(a, b, LAMBDA i, j, v : IF i[v] # j[v] THEN 1 ELSE 0)

\* c * img on an 8-bit image.
Multiply(c, img) == PerVoxel(img, LAMBDA i, v : (c * i[v]) % 256)

\* sitk.Or: the bitwise or, here of two images of 0 and 1.
Or(a, b) ==
    PerVoxel2(a, b, LAMBDA i, j, v : IF i[v] = 1 \/ j[v] = 1 THEN 1 ELSE 0)

\* sitk.Mask(image, maskImage) with outsideValue = 0 and maskingValue = 0:
\* the image where the mask is not 0, and 0 elsewhere.
Mask(image, maskImage) ==
    PerVoxel2(image, maskImage, LAMBDA i, m, v : IF m[v] # 0 THEN i[v] ELSE 0)

\* ------------------------------------------------- smoothing and threshold
\* The discrete Gaussian kernel for variance 1.5 cut by maximumKernelWidth 1
\* to the taps -2 .. 2, in thirteenths (the normalised coefficients are
\* 0.079, 0.229, 0.384, 0.229, 0.079).
Kernel == <<1, 3, 5, 3, 1>>

KernelSum == Kernel[1] + Kernel[2] + Kernel[3] + Kernel[4] + Kernel[5]

\* What one unit of intensity is after the three passes of the kernel.
GaussScale == KernelSum * KernelSum * KernelSum

\* The voxel k steps from v along axis a, the border replicated
\* (the zero-flux Neumann condition of itk::DiscreteGaussianImageFilter).
Shift(v, a, k) ==
    LET x == IF a = 1 THEN Clamp(Coord(v, 1) + k, 1) ELSE Coord(v, 1)
        y == IF a = 2 THEN Clamp(Coord(v, 2) + k, 2) ELSE Coord(v, 2)
        z == IF a = 3 THEN Clamp(Coord(v, 3) + k, 3) ELSE Coord(v, 3)
    IN VoxelAt(x, y, z)

\* Taps[a][v]: the five voxels the kernel reads at v along axis a.
Taps ==
    Image([a \in 1 .. 3 |->
        Image([v \in Voxels |-> Image([k \in 1 .. 5 |-> Shift(v, a, k - 3)])])])

Weighted(i, t) ==
    Kernel[1] * i[t[1]] + Kernel[2] * i[t[2]] + Kernel[3] * i[t[3]]
  + Kernel[4] * i[t[4]] + Kernel[5] * i[t[5]]

Smooth1D(img, a) == PerVoxel(img, LAMBDA i, v : Weighted(i, Taps[a][v]))

\* sitk.DiscreteGaussian(img, 1.5, 1, 0.01, False): the smoothed image, in
\* units of 1/GaussScale.
DiscreteGaussian(img) == Smooth1D(Smooth1D(Smooth1D(img, 1), 2), 3)

\* A threshold filter that takes an empty band for an empty mask.
ThresholdNeverRaises(lower, upper) == FALSE

\* itk::BinaryThresholdImageFilter raises when lower > upper.
ThresholdRaises(lower, upper) == lower > upper

\* sitk.BinaryThreshold(img, lower, upper, inside, outside).
BinaryThreshold(img, lower, upper, inside, outside) ==
    PerVoxel(img, LAMBDA i, v :
        IF lower <= i[v] /\ i[v] <= upper THEN inside ELSE outside)

\* ---------------------------------------------------- connected components
\* Two voxels that share a face.
FaceAdjacent(u, v) == Dist2(u, v) = 1

\* Two voxels that share a face, an edge or a corner.
FullyAdjacent(u, v) ==
    /\ u # v
    /\ \A a \in 1 .. 3 : Coord(u, a) - Coord(v, a) \in {-1, 0, 1}

\* The neighbours of each voxel under either connectivity.
FaceNeighbours == Image([v \in Voxels |-> {u \in Voxels : FaceAdjacent(u, v)}])

FullNeighbours == Image([v \in Voxels |-> {u \in Voxels : FullyAdjacent(u, v)}])

Neighbours(v, fullyConnected) ==
    IF fullyConnected THEN FullNeighbours[v] ELSE FaceNeighbours[v]

\* The voxels of F reachable from S through neighbouring voxels of F.
RECURSIVE Reach(_, _, _)
Reach(S, F, fullyConnected) ==
    LET N == (F \cap UNION {Neighbours(u, fullyConnected) : u \in S}) \ S
    IN IF N = {} THEN S ELSE Reach(S \cup N, F, fullyConnected)

\* The components of F labelled k, k+1, ... in the order of their first
\* voxel in the raster scan; acc is the label image so far.
RECURSIVE LabelFrom(_, _, _, _)
LabelFrom(F, k, acc, fullyConnected) ==
    IF F = {} THEN acc
    ELSE LET c == Reach({Min(F)}, F, fullyConnected)
         IN LabelFrom(F \ c, k + 1,
                      PerVoxel(acc, LAMBDA i, v : IF v \in c THEN k ELSE i[v]),
                      fullyConnected)

LabelComponents(img, fullyConnected) ==
    LabelFrom({v \in Voxels : img[v] # 0}, 1,
              Image([v \in Voxels |-> 0]), fullyConnected)

\* A labelling with fullyConnected=True: components joined through faces,
\* edges and corners.
ConnectedComponentFully(img) == LabelComponents(img, TRUE)

\* sitk.ConnectedComponent(img) with fullyConnected left at its default,
\* False: every voxel that is not 0 is an object voxel, the objects are the
\* face-connected components, labelled 1, 2, ... .
ConnectedComponent(img) == LabelComponents(img, FALSE)

\* sitk.RelabelComponent(img, sortByObjectSize=True): the labels renumbered
\* by decreasing object size, equal sizes in the order of their old labels.
ObjectSize(lab, l) == Card({v \in Voxels : lab[v] = l})

RankedBefore(lab, k, l) ==
    \E sizes \in {<<ObjectSize(lab, k), ObjectSize(lab, l)>>} :
        sizes[1] > sizes[2] \/ (sizes[1] = sizes[2] /\ k < l)

Rank(lab, l) ==
    1 + Card({k \in {lab[v] : v \in Voxels} \ {0} : RankedBefore(lab, k, l)})

RelabelComponent(img) ==
    PerVoxel(img, LAMBDA lab, v : IF lab[v] = 0 THEN 0 ELSE Rank(lab, lab[v]))

\* --------------------------------------------------------------- morphology
\* sitk.sitkBall of radius r: the offsets inside the ellipsoid whose axes are
\* the kernel's size 2r+1 (itk::FlatStructuringElement::Ball), that is the
\* offsets d with 4*|d|^2 <= (2r+1)^2.
InBall(d2, r) == 4 * d2 <= (2 * r + 1) * (2 * r + 1)

BallOffsets(r) ==
    {d \in (-r .. r) \X (-r .. r) \X (-r .. r) :
        InBall(d[1] * d[1] + d[2] * d[2] + d[3] * d[3], r)}

\* The voxels of the grid inside the ball of radius r about the position
\* (x, y, z), which may lie outside the grid.
BallAt(x, y, z, r) ==
    {u \in Voxels :
        LET dx == Coord(u, 1) - x
            dy == Coord(u, 2) - y
            dz == Coord(u, 3) - z
        IN InBall(dx * dx + dy * dy + dz * dz, r)}

\* Ball[r][v]: the voxels of the grid inside the ball of radius r about v.
Ball ==
    Image([r \in Radii |->
        Image([v \in Voxels |->
            BallAt(Coord(v, 1), Coord(v, 2), Coord(v, 3), r)])])

\* PaddedBall[r][v]: for every position of the ball about v, in the grid or
\* in the r voxels of padding around it, the voxels of the grid inside the
\* ball about that position.
PaddedBall ==
    Image([r \in Radii |->
        Image([v \in Voxels |->
            {BallAt(Coord(v, 1) + d[1], Coord(v, 2) + d[2],
                    Coord(v, 3) + d[3], r) : d \in BallOffsets(r)}])])

\* sitk.BinaryDilate(img, [r]*3, sitk.sitkBall, backgroundValue,
\* foregroundValue), boundaryToForeground at its default, False: a voxel with
\* a foreground voxel of the grid inside its ball becomes foreground, every
\* other voxel keeps its value.
BinaryDilate(img, r, backgroundValue, foregroundValue) ==
    PerVoxel(img, LAMBDA i, v :
        IF \E u \in Ball[r][v] : i[u] = foregroundValue
        THEN foregroundValue ELSE i[v])

\* An erosion with boundaryToForeground=False: outside the grid counts as
\* background, so a ball that leaves the grid erodes its voxel.
BinaryErodeBoundaryBackground(img, r, backgroundValue, foregroundValue) ==
    PerVoxel(img, LAMBDA i, v :
        IF /\ i[v] = foregroundValue
           /\ \/ \E u \in Ball[r][v] : i[u] # foregroundValue
              \/ Card(Ball[r][v]) < Card(BallOffsets(r))
        THEN backgroundValue ELSE i[v])

\* sitk.BinaryErode(img, [r]*3, sitk.sitkBall, backgroundValue,
\* foregroundValue), boundaryToForeground at its default, True: a foreground
\* voxel with a voxel of the grid that is not foreground inside its ball
\* becomes background (outside the grid counts as foreground), every other
\* voxel keeps its value.
BinaryErode(img, r, backgroundValue, foregroundValue) ==
    PerVoxel(img, LAMBDA i, v :
        IF i[v] = foregroundValue /\ \E u \in Ball[r][v] : i[u] # foregroundValue
        THEN backgroundValue ELSE i[v])

\* sitk.BinaryMorphologicalOpening(img, [r]*3, sitk.sitkBall,
\* backgroundValue, foregroundValue): the erosion, then the dilation.
BinaryMorphologicalOpening(img, r, backgroundValue, foregroundValue) ==
    BinaryDilate(BinaryErode(img, r, backgroundValue, foregroundValue),
                 r, backgroundValue, foregroundValue)

\* sitk.BinaryMorphologicalClosing(img, [r]*3, sitk.sitkBall,
\* foregroundValue), safeBorder at its default, True: the image is padded by
\* r voxels of background, dilated, eroded and cropped, so that the dilation
\* is not cut at the border of the grid.  The background is 0, or 255 when
\* the foreground is 0.
BinaryMorphologicalClosing(img, r, foregroundValue) ==
    \* a position is dilated to when its ball holds a foreground voxel, and
    \* a voxel dilated to stays foreground when every position of its ball is
    PerVoxel(img, LAMBDA i, v :
        IF \E u \in Ball[r][v] : i[u] = foregroundValue
        THEN (IF \A b \in PaddedBall[r][v] : \E u \in b : i[u] = foregroundValue
              THEN foregroundValue
              ELSE (IF foregroundValue = 0 THEN 255 ELSE 0))
        ELSE i[v])

\* --------------------------------------------------- the class's helpers
\* AutocontourKnee._gaussian_and_threshold with the default sigma and
\* support; the thresholds are brought to the units of the smoothed image.
\* Defined where BinaryThreshold does not raise.
_gaussian_and_threshold(img, lower, upper, in_value, out_value) ==
    LET img_gauss == DiscreteGaussian(img)
    IN BinaryThreshold(img_gauss, lower * GaussScale, upper * GaussScale,
                       in_value, out_value)

\* A selection without the multiplication by in_value.
_get_largest_connected_component_unscaled(img, in_value) ==
    Equal(RelabelComponent(ConnectedComponent(img)), 1)

\* A selection without the relabelling by size: the component the scan meets
\* first.
_get_first_connected_component(img, in_value) ==
    Multiply(in_value, Equal(ConnectedComponent(img), 1))

\* AutocontourKnee._get_largest_connected_component.
_get_largest_connected_component(img, in_value) ==
    LET img_conn == RelabelComponent(ConnectedComponent(img))
    IN Multiply(in_value, Equal(img_conn, 1))

\* An inversion without the multiplication by in_value.
_invert_binary_image_unscaled(img, in_value) == NotEqual(img, in_value)

\* AutocontourKnee._invert_binary_image.
_invert_binary_image(img, in_value) == Multiply(in_value, NotEqual(img, in_value))

\* AutocontourKnee._close_with_connected_components.
_close_with_connected_components(img, radius, in_value, out_value) ==
    LET dilated == BinaryDilate(img, radius, out_value, in_value)
        inverted == _invert_binary_image(dilated, in_value)
        largest == _get_largest_connected_component(inverted, in_value)
        reinverted == _invert_binary_image(largest, in_value)
    IN BinaryErode(reinverted, radius, out_value, in_value)

\* ------------------------------------------------------ get_periosteal_mask
\* STEP 1 without the inversion back to the foreground.
Step1NoReinvert(o, img) ==
    LET thresholded == _gaussian_and_threshold(img, o.peri_s1_lower,
                           o.peri_s1_upper, o.in_value, o.out_value)
        largest == _get_largest_connected_component(thresholded, o.in_value)
        dilated == BinaryDilate(largest, o.peri_s1_radius,
                                o.out_value, o.in_value)
        inverted == _invert_binary_image(dilated, o.in_value)
        img_segmented == _get_largest_connected_component(inverted, o.in_value)
    IN [thresholded |-> thresholded, largest |-> largest,
        img_segmented |-> img_segmented,
        img_masked |-> Mask(img, img_segmented)]

\* STEP 1 of get_periosteal_mask on the image img by the object o, where its
\* threshold does not raise: the largest component kept, the coarse mask s1
\* and the image masked by it.
Step1(o, img) ==
    LET thresholded == _gaussian_and_threshold(img, o.peri_s1_lower,
                           o.peri_s1_upper, o.in_value, o.out_value)
        largest == _get_largest_connected_component(thresholded, o.in_value)
        dilated == BinaryDilate(largest, o.peri_s1_radius,
                                o.out_value, o.in_value)
        inverted == _invert_binary_image(dilated, o.in_value)
        background == _get_largest_connected_component(inverted, o.in_value)
        img_segmented == _invert_binary_image(background, o.in_value)
    IN [thresholded |-> thresholded, largest |-> largest,
        img_segmented |-> img_segmented,
        img_masked |-> Mask(img, img_segmented)]

\* STEP 2 masking the image step 1 masked instead of the original image.
Step2Remask(o, img, img_masked) ==
    LET thresholded == _gaussian_and_threshold(img_masked, o.peri_s2_lower,
                           o.peri_s2_upper, o.in_value, o.out_value)
        largest == _get_largest_connected_component(thresholded, o.in_value)
        img_segmented == _close_with_connected_components(largest,
                             o.peri_s2_radius, o.in_value, o.out_value)
    IN [thresholded |-> thresholded, largest |-> largest,
        img_segmented |-> img_segmented,
        img_masked |-> Mask(img_masked, img_segmented)]

\* STEP 2: img_masked is the image masked in step 1, img the original image.
Step2(o, img, img_masked) ==
    LET thresholded == _gaussian_and_threshold(img_masked, o.peri_s2_lower,
                           o.peri_s2_upper, o.in_value, o.out_value)
        largest == _get_largest_connected_component(thresholded, o.in_value)
        img_segmented == _close_with_connected_components(largest,
                             o.peri_s2_radius, o.in_value, o.out_value)
    IN [thresholded |-> thresholded, largest |-> largest,
        img_segmented |-> img_segmented,
        img_masked |-> Mask(img, img_segmented)]

\* STEP 3 thresholding the original image instead of the masked one.
Step3Unmasked(o, img, img_masked) ==
    LET thresholded == _gaussian_and_threshold(img, o.peri_s3_lower,
                           o.peri_s3_upper, o.in_value, o.out_value)
        img_segmented == _close_with_connected_components(thresholded,
                             o.peri_s3_radius, o.in_value, o.out_value)
    IN [thresholded |-> thresholded,
        img_segmented |-> img_segmented,
        img_masked |-> Mask(img, img_segmented)]

\* STEP 3: img_masked is the image masked in step 2.
Step3(o, img, img_masked) ==
    LET thresholded == _gaussian_and_threshold(img_masked, o.peri_s3_lower,
                           o.peri_s3_upper, o.in_value, o.out_value)
        img_segmented == _close_with_connected_components(thresholded,
                             o.peri_s3_radius, o.in_value, o.out_value)
    IN [thresholded |-> thresholded,
        img_segmented |-> img_segmented,
        img_masked |-> Mask(img, img_segmented)]

\* STEP 4 without the last masking by the mask of step 1.
Step4Unmasked(o, s1, s2, s3) ==
    LET diff == Multiply(o.in_value,
                    NotEqualImages(Equal(s2, o.in_value), Equal(s3, o.in_value)))
        diff_open == BinaryMorphologicalOpening(diff, o.peri_s4_open_radius,
                         o.out_value, o.in_value)
        fused == Multiply(o.in_value,
                     Or(Equal(s3, o.in_value), Equal(diff_open, o.in_value)))
        closed == BinaryMorphologicalClosing(fused, o.peri_s4_close_radius,
                      o.in_value)
    IN [img_segmented_diff |-> diff, img_segmented_diff_open |-> diff_open,
        fused |-> fused, closed |-> closed, peri_mask |-> closed]

\* STEP 4: the fusion of the masks of steps 2 and 3, masked by that of step 1.
Step4(o, s1, s2, s3) ==
    LET diff == Multiply(o.in_value,
                    NotEqualImages(Equal(s2, o.in_value), Equal(s3, o.in_value)))
        diff_open == BinaryMorphologicalOpening(diff, o.peri_s4_open_radius,
                         o.out_value, o.in_value)
        fused == Multiply(o.in_value,
                     Or(Equal(s3, o.in_value), Equal(diff_open, o.in_value)))
        closed == BinaryMorphologicalClosing(fused, o.peri_s4_close_radius,
                      o.in_value)
    IN [img_segmented_diff |-> diff, img_segmented_diff_open |-> diff_open,
        fused |-> fused, closed |-> closed, peri_mask |-> Mask(closed, s1)]

\* ------------------------------------------------------------ the inputs
\* The objects AutocontourKnee.__init__ builds: it stores its parameters as
\* they are given and checks none of them.
Object(iv, b1, b2, b3, r) ==
    [in_value |-> iv, out_value |-> 0,
     peri_s1_lower |-> b1[1], peri_s1_upper |-> b1[2], peri_s1_radius |-> r[1],
     peri_s2_lower |-> b2[1], peri_s2_upper |-> b2[2], peri_s2_radius |-> r[2],
     peri_s3_lower |-> b3[1], peri_s3_upper |-> b3[2], peri_s3_radius |-> r[3],
     peri_s4_open_radius |-> r[4], peri_s4_close_radius |-> r[5]]

Objects ==
    {Object(iv, b1, b2, b3, r) :
        iv \in InValues, b1 \in Bands, b2 \in Bands, b3 \in Bands,
        r \in RadiusProfiles}

\* The volumes: a background intensity and at most MaxOdd voxels of another.
Volumes ==
    {f \in [Voxels -> Intensities] :
        \E c \in Intensities : Card({v \in Voxels : f[v] # c}) <= MaxOdd}

\* The two-valued masks of foreground label iv.
Masks(iv) == [Voxels -> {0, iv}]

\* A local of get_periosteal_mask that is not assigned yet.
Unset == <<>>

\* --------------------------------------------------------------- the state
VARIABLES
    pc,                       \* where get_periosteal_mask is
    self,                     \* the AutocontourKnee object's attributes
    img,                      \* the argument of get_periosteal_mask
    img_masked,               \* the local img_masked
    thresholded,              \* the last result of _gaussian_and_threshold
    largest_s1, largest_s2,   \* the largest component kept in steps 1 and 2
    img_segmented_s1, img_segmented_s2, img_segmented_s3,
    img_segmented_diff, img_segmented_diff_open,
    fused,                    \* peri_mask after the Or of step 4
    peri_mask,                \* the mask returned
    stages,                   \* the steps run so far, in order
    fn,                       \* the helper applied on its own, "" for none
    arg,                      \* the mask it is applied to
    radius,                   \* the radius it is given
    out                       \* what it returned

vars == <<pc, self, img, img_masked, thresholded, largest_s1, largest_s2,
          img_segmented_s1,
          img_segmented_s2, img_segmented_s3, img_segmented_diff,
          img_segmented_diff_open, fused, peri_mask, stages,
          fn, arg, radius, out>>

masks == <<img_masked, thresholded, largest_s1, largest_s2, img_segmented_s1,
           img_segmented_s2, img_segmented_s3, img_segmented_diff,
           img_segmented_diff_open, fused, peri_mask>>

helper == <<fn, arg, radius, out>>

\* The object as __init__ leaves it, get_periosteal_mask not yet called.
Init ==
    /\ pc = "constructed"
    /\ self \in Objects
    /\ img = Unset
    /\ img_masked = Unset
    /\ thresholded = Unset
    /\ largest_s1 = Unset
    /\ largest_s2 = Unset
    /\ img_segmented_s1 = Unset
    /\ img_segmented_s2 = Unset
    /\ img_segmented_s3 = Unset
    /\ img_segmented_diff = Unset
    /\ img_segmented_diff_open = Unset
    /\ fused = Unset
    /\ peri_mask = Unset
    /\ stages = <<>>
    /\ fn = ""
    /\ arg = Unset
    /\ radius = 0
    /\ out = Unset

\* get_periosteal_mask(img) is called.
Call ==
    /\ pc = "constructed"
    /\ img' \in Volumes
    /\ pc' = "Stage1"
    /\ UNCHANGED <<self, masks, stages, helper>>

\* The BinaryThreshold of a step raises: get_periosteal_mask ends with the
\* error, having returned nothing.
Raise ==
    /\ pc' = "failed"
    /\ UNCHANGED <<self, img, masks>>

Stage1 ==
    /\ pc = "Stage1"
    /\ stages' = Append(stages, "Stage1")
    /\ UNCHANGED helper
    /\ IF ThresholdRaises(self.peri_s1_lower, self.peri_s1_upper)
       THEN Raise
       ELSE \E r \in {Step1(self, img)} :
               /\ thresholded' = r.thresholded
               /\ largest_s1' = r.largest
               /\ img_segmented_s1' = r.img_segmented
               /\ img_masked' = r.img_masked
               /\ pc' = "Stage2"
               /\ UNCHANGED <<self, img, largest_s2, img_segmented_s2,
                              img_segmented_s3,
                              img_segmented_diff, img_segmented_diff_open,
                              fused, peri_mask>>

Stage2 ==
    /\ pc = "Stage2"
    /\ stages' = Append(stages, "Stage2")
    /\ UNCHANGED helper
    /\ IF ThresholdRaises(self.peri_s2_lower, self.peri_s2_upper)
       THEN Raise
       ELSE \E r \in {Step2(self, img, img_masked)} :
               /\ thresholded' = r.thresholded
               /\ largest_s2' = r.largest
               /\ img_segmented_s2' = r.img_segmented
               /\ img_masked' = r.img_masked
               /\ pc' = "Stage3"
               /\ UNCHANGED <<self, img, largest_s1, img_segmented_s1,
                              img_segmented_s3,
                              img_segmented_diff, img_segmented_diff_open,
                              fused, peri_mask>>

Stage3 ==
    /\ pc = "Stage3"
    /\ stages' = Append(stages, "Stage3")
    /\ UNCHANGED helper
    /\ IF ThresholdRaises(self.peri_s3_lower, self.peri_s3_upper)
       THEN Raise
       ELSE \E r \in {Step3(self, img, img_masked)} :
               /\ thresholded' = r.thresholded
               /\ img_segmented_s3' = r.img_segmented
               /\ img_masked' = r.img_masked
               /\ pc' = "Stage4"
               /\ UNCHANGED <<self, img, largest_s1, largest_s2,
                              img_segmented_s1,
                              img_segmented_s2, img_segmented_diff,
                              img_segmented_diff_open, fused, peri_mask>>

Stage4 ==
    /\ pc = "Stage4"
    /\ stages' = Append(stages, "Stage4")
    /\ UNCHANGED helper
    /\ \E r \in {Step4(self, img_segmented_s1, img_segmented_s2,
                       img_segmented_s3)} :
          /\ img_segmented_diff' = r.img_segmented_diff
          /\ img_segmented_diff_open' = r.img_segmented_diff_open
          /\ fused' = r.fused
          /\ peri_mask' = r.peri_mask
          /\ pc' = "done"
          /\ UNCHANGED <<self, img, img_masked, thresholded, largest_s1,
                         largest_s2, img_segmented_s1, img_segmented_s2,
                         img_segmented_s3>>

Next == Call \/ Stage1 \/ Stage2 \/ Stage3 \/ Stage4

Spec == Init /\ [][Next]_vars

\* ------------------------------------------------- the helpers on their own
\* An object (only its in_value and out_value are read), a two-valued mask
\* and a radius to apply a helper to.
InitHelper ==
    /\ pc = "helper"
    /\ \E iv \in InValues :
        /\ self = Object(iv, <<1, 3>>, <<1, 3>>, <<1, 3>>, <<1, 1, 1, 1, 1>>)
        /\ arg \in Masks(iv)
    /\ radius \in Radii
    /\ fn = ""
    /\ out = Unset
    /\ img = Unset
    /\ img_masked = Unset
    /\ thresholded = Unset
    /\ largest_s1 = Unset
    /\ largest_s2 = Unset
    /\ img_segmented_s1 = Unset
    /\ img_segmented_s2 = Unset
    /\ img_segmented_s3 = Unset
    /\ img_segmented_diff = Unset
    /\ img_segmented_diff_open = Unset
    /\ fused = Unset
    /\ peri_mask = Unset
    /\ stages = <<>>

Invert ==
    /\ pc = "helper"
    /\ fn = ""
    /\ fn' = "invert"
    /\ out' = _invert_binary_image(arg, self.in_value)
    /\ UNCHANGED <<pc, self, img, masks, stages, arg, radius>>

\* The inversion of an inverted mask.
InvertAgain ==
    /\ pc = "helper"
    /\ fn = "invert"
    /\ fn' = "invert_twice"
    /\ out' = _invert_binary_image(out, self.in_value)
    /\ UNCHANGED <<pc, self, img, masks, stages, arg, radius>>

Largest ==
    /\ pc = "helper"
    /\ fn = ""
    /\ fn' = "largest"
    /\ out' = _get_largest_connected_component(arg, self.in_value)
    /\ UNCHANGED <<pc, self, img, masks, stages, arg, radius>>

Close ==
    /\ pc = "helper"
    /\ fn = ""
    /\ fn' = "close"
    /\ out' = _close_with_connected_components(arg, radius,
                  self.in_value, self.out_value)
    /\ UNCHANGED <<pc, self, img, masks, stages, arg, radius>>

NextHelper == Invert \/ InvertAgain \/ Largest \/ Close

SpecHelper == InitHelper /\ [][NextHelper]_vars

\* ================================================= the helpers' properties
\* The face-connected component of the voxel set F that holds voxel v.
FaceComponent(v, F) == Reach({v}, F, FALSE)

\* Whether u and v touch along an edge or at a corner only.
DiagonalOnly(u, v) == FullyAdjacent(u, v) /\ ~FaceAdjacent(u, v)

\* C3: the foreground of _close_with_connected_components(m, r), r > 0, holds
\* the foreground of m, for every two-valued mask m of the grid: the empty
\* one, those at the border, those whose dilation covers the grid.
C3_ClosingContains ==
    fn = "close" => Fg(arg, self.in_value) \subseteq Fg(out, self.in_value)

\* C3 at work: a mask neither empty nor full that the closing adds voxels to.
C3_Witness ==
    /\ fn = "close"
    /\ radius > 0
    /\ Fg(arg, self.in_value) # {}
    /\ Fg(out, self.in_value) # Fg(arg, self.in_value)
    /\ Fg(arg, self.in_value) \subseteq Fg(out, self.in_value)

\* C4: _get_largest_connected_component(m) is all background when m is, and
\* otherwise its foreground is exactly one (face-)connected component of m,
\* no smaller than any other component of m.
C4_LargestComponent ==
    fn = "largest" =>
        LET F == Fg(arg, self.in_value)
            R == Fg(out, self.in_value)
        IN /\ \A v \in Voxels : out[v] \in {0, self.in_value}
           /\ F = {} => R = {}
           /\ F # {} =>
                /\ \E v \in F : R = FaceComponent(v, F)
                /\ \A u \in F : Card(FaceComponent(u, F)) <= Card(R)

\* C4 at work: a mask of several components, one of them dropped although the
\* scan meets it first.
C4_Witness ==
    /\ fn = "largest"
    /\ LET F == Fg(arg, self.in_value)
           R == Fg(out, self.in_value)
       IN /\ F # {}
          /\ R # F
          /\ Min(F) \notin R

\* C5: on a mask of the values in_value and 0, one inversion takes in_value
\* to 0 and 0 to in_value, and two inversions give the mask back.
C5_InvertTwice ==
    /\ fn = "invert" =>
          \A v \in Voxels :
              /\ arg[v] = self.in_value => out[v] = 0
              /\ arg[v] = 0 => out[v] = self.in_value
    /\ fn = "invert_twice" => out = arg

\* C5 at work: a mask of both values, of a label other than 1, inverted twice.
C5_Witness ==
    /\ fn = "invert_twice"
    /\ self.in_value # 1
    /\ \E u, v \in Voxels : arg[u] = 0 /\ arg[v] = self.in_value
    /\ out = arg

\* C10 as claimed: two foreground voxels that touch, be it only along an edge
\* or at a corner, are kept or dropped together.
C10_Original ==
    fn = "largest" =>
        \A u, v \in Fg(arg, self.in_value) :
            FullyAdjacent(u, v) =>
                (out[u] = self.in_value <=> out[v] = self.in_value)

\* C10 amended: the components are the face-connected ones: the voxels kept
\* are those joined to one another by chains of face-sharing foreground
\* voxels, and a foreground voxel that touches them only along edges or at
\* corners is dropped.
C10_FaceConnected ==
    fn = "largest" =>
        LET F == Fg(arg, self.in_value)
            R == Fg(out, self.in_value)
        IN \A u \in R : R = FaceComponent(u, F)

\* C10 at work: two blobs joined only diagonally, one of them dropped.
C10_Witness ==
    /\ fn = "largest"
    /\ \E u, v \in Fg(arg, self.in_value) :
          /\ DiagonalOnly(u, v)
          /\ out[u] = self.in_value
          /\ out[v] = 0
          /\ Fg(arg, self.in_value) = FaceComponent(u, Fg(arg, self.in_value))
                                      \cup FaceComponent(v, Fg(arg, self.in_value))

\* ================================================ the pipeline's properties
Order == <<"Stage1", "Stage2", "Stage3", "Stage4">>

\* The image i where the mask m is not 0, and 0 elsewhere.
Masked(i, m) == [v \in Voxels |-> IF m[v] # 0 THEN i[v] ELSE 0]

Empty(m) == Fg(m, self.in_value) = {}

BandEmpty(n) ==
    IF n = 1 THEN self.peri_s1_lower > self.peri_s1_upper
    ELSE IF n = 2 THEN self.peri_s2_lower > self.peri_s2_upper
    ELSE IF n = 3 THEN self.peri_s3_lower > self.peri_s3_upper
    ELSE FALSE

\* C1: the foreground of the mask returned lies inside the foreground of the
\* coarse mask s1 of the same call.
C1_InsideCoarseMask ==
    pc = "done" =>
        Fg(peri_mask, self.in_value) \subseteq Fg(img_segmented_s1, self.in_value)

\* C1 at work: the fused mask reaches outside s1 and the mask returned, not
\* empty, does not.
C1_Witness ==
    /\ pc = "done"
    /\ \E v \in Voxels : fused[v] = self.in_value /\ img_segmented_s1[v] = 0
    /\ ~Empty(peri_mask)

\* C2: every mask of a call holds the values in_value and 0 only: what
\* _gaussian_and_threshold and _get_largest_connected_component return, s1
\* (an inversion's result), s2 and s3 (results of
\* _close_with_connected_components), the difference, its opening, the fused
\* mask and the mask returned, each from the moment it is made.
C2_TwoValued ==
    \A m \in {thresholded, largest_s1, largest_s2, img_segmented_s1,
              img_segmented_s2, img_segmented_s3, img_segmented_diff,
              img_segmented_diff_open, fused, peri_mask} :
        m # Unset => \A v \in Voxels : m[v] \in {0, self.in_value}

\* C2 at work: a finished call with a label other than 1 whose masks hold
\* both values.
C2_Witness ==
    /\ pc = "done"
    /\ self.in_value # 1
    /\ \A m \in {img_segmented_s1, img_segmented_s2, img_segmented_diff,
                 peri_mask} :
          \E u, v \in Voxels : m[u] = 0 /\ m[v] = self.in_value

\* C6 as claimed: no object has peri_s1_lower > peri_s1_upper.
C6_Original == self.peri_s1_lower <= self.peri_s1_upper

\* C6 amended: an object with peri_s1_lower > peri_s1_upper is built like any
\* other, and its get_periosteal_mask fails in step 1, at the threshold, the
\* volume passed and no mask made.
C6_FailsInStage1 ==
    self.peri_s1_lower > self.peri_s1_upper =>
        /\ pc \in {"constructed", "Stage1", "failed"}
        /\ pc = "failed" =>
              /\ stages = <<"Stage1">>
              /\ \A m \in {img_masked, thresholded, img_segmented_s1,
                           peri_mask} : m = Unset

\* C6 at work: the call of such an object has failed on a volume.
C6_Witness ==
    /\ self.peri_s1_lower > self.peri_s1_upper
    /\ pc = "failed"
    /\ img \in Volumes

\* C7 as claimed, for the calls that return: when the largest component of
\* step 1 or of step 2 is empty, the mask returned is empty.
C7_Original ==
    (pc = "done" /\ (Empty(largest_s1) \/ Empty(largest_s2))) =>
        Empty(peri_mask)

\* C7 amended: a call fails only at a threshold whose band is empty (lower >
\* upper), never for an empty selection; when it returns and step 1's
\* selection was empty, all four steps ran and the mask returned is empty;
\* when it returns and step 2's selection was empty, all four steps ran and
\* the mask returned is empty if 0 is outside step 3's band, and is s1 if 0
\* is inside it.
C7_EmptySelection ==
    /\ pc = "failed" => BandEmpty(Len(stages))
    /\ (pc = "done" /\ Empty(largest_s1)) =>
          stages = Order /\ Empty(peri_mask)
    /\ (pc = "done" /\ Empty(largest_s2)) =>
          /\ stages = Order
          /\ IF self.peri_s3_lower <= 0 /\ 0 <= self.peri_s3_upper
             THEN peri_mask = img_segmented_s1
             ELSE Empty(peri_mask)

\* C7 at work: step 1 kept a component, step 2 none, 0 is outside step 3's
\* band, and the call returned an empty mask.
C7_Witness ==
    /\ pc = "done"
    /\ ~Empty(largest_s1)
    /\ Empty(largest_s2)
    /\ ~(self.peri_s3_lower <= 0 /\ 0 <= self.peri_s3_upper)
    /\ Empty(peri_mask)

Uniform(c) == \A v \in Voxels : img[v] = c

\* C8: for a volume of one intensity c below the lower thresholds of steps
\* 1, 2 and 3, every voxel of the mask returned is 0.
C8_UniformBelow ==
    \A c \in Intensities :
        (/\ pc = "done"
         /\ Uniform(c)
         /\ c < self.peri_s1_lower
         /\ c < self.peri_s2_lower
         /\ c < self.peri_s3_lower) =>
            \A v \in Voxels : peri_mask[v] = 0

\* C8 at work: such a volume with step 2's lower threshold below 0, where
\* the zeroed voxels are inside the band and s2 is not empty.
C8_Witness ==
    /\ pc = "done"
    /\ \E c \in Intensities :
          /\ Uniform(c)
          /\ c < self.peri_s1_lower
          /\ c < self.peri_s2_lower
          /\ c < self.peri_s3_lower
    /\ self.peri_s2_lower <= 0
    /\ ~Empty(img_segmented_s2)
    /\ \A v \in Voxels : peri_mask[v] = 0

\* The steps a call has run when it is at pc.
Ran(n) == stages = SubSeq(Order, 1, n)

C9_State ==
    /\ pc \in {"constructed", "Stage1"} => Ran(0)
    /\ pc = "Stage2" => Ran(1) /\ img_masked = Masked(img, img_segmented_s1)
    /\ pc = "Stage3" =>
          /\ Ran(2)
          /\ img_masked = Masked(img, img_segmented_s2)
          /\ thresholded =
                _gaussian_and_threshold(Masked(img, img_segmented_s1),
                    self.peri_s2_lower, self.peri_s2_upper,
                    self.in_value, self.out_value)
    /\ pc \in {"Stage4", "done"} =>
          /\ Ran(IF pc = "done" THEN 4 ELSE 3)
          /\ thresholded =
                _gaussian_and_threshold(Masked(img, img_segmented_s2),
                    self.peri_s3_lower, self.peri_s3_upper,
                    self.in_value, self.out_value)
    /\ pc = "failed" => \E n \in 1 .. 3 : Ran(n)

C9_Step ==
    /\ pc' # pc =>
          <<pc, pc'>> \in {<<"constructed", "Stage1">>, <<"Stage1", "Stage2">>,
                           <<"Stage2", "Stage3">>, <<"Stage3", "Stage4">>,
                           <<"Stage4", "done">>, <<"Stage1", "failed">>,
                           <<"Stage2", "failed">>, <<"Stage3", "failed">>}
    /\ pc # "constructed" => img' = img
    /\ pc \notin {"constructed", "Stage1"} =>
          img_segmented_s1' = img_segmented_s1
    /\ pc \notin {"constructed", "Stage1", "Stage2"} =>
          img_segmented_s2' = img_segmented_s2
    /\ pc \notin {"constructed", "Stage1", "Stage2", "Stage3"} =>
          img_segmented_s3' = img_segmented_s3

\* C9: a call runs step 1, 2, 3, 4 and is done, each step once and none
\* skipped (or stops at the threshold of a step that raises); step 2
\* thresholds the original image masked by s1 and step 3 the original image
\* masked by s2; the image and the masks s1, s2 and s3 do not change once
\* their step has finished, so step 4 reads them as they were.
C9_StagesInOrder == [](C9_State) /\ [][C9_Step]_vars

\* C9 at work: a finished call whose s2 reaches outside s1, so that masking
\* the original image by s2 and masking the masked image by s2 differ.
C9_Witness ==
    /\ pc = "done"
    /\ stages = Order
    /\ \E v \in Voxels :
          img_segmented_s2[v] # 0 /\ img_segmented_s1[v] = 0 /\ img[v] # 0

====
